---- MODULE Spec2Model ----
(***************************************************************************)
(* Model of the risk engine of the backend: the variance decomposition of  *)
(* backend/decomposition.py, the factor regression of                      *)
(* backend/factor_pipeline.py, the insight rules of backend/insight.py and *)
(* the request handler of backend/routers/analyze.py.  Each component has  *)
(* its own variables and its own specification; a specification leaves the *)
(* variables of the other components idle.                                 *)
(*                                                                         *)
(* Numbers.  The code computes in binary floating point; the model        *)
(* computes the same expressions over exact rationals, so a property that  *)
(* holds here holds of the code up to floating-point rounding error.       *)
(*   - a weight is an integer number of tenths (6 is the weight 0.6);      *)
(*   - a loading (beta) is an integer;                                     *)
(*   - an entry of the factor covariance F and a residual variance are     *)
(*     integer multiples of 1e-6;                                          *)
(*   - hence every variance w^T M w is an integer number of "variance      *)
(*     units" of 1e-8 (tenth * tenth * 1e-6);                              *)
(*   - a percentage is a rational <<n, d>> in lowest terms with d > 0.     *)
(***************************************************************************)
EXTENDS Integers, Sequences, FiniteSets, TLC

\* decompose_portfolio_variance (decomposition.py)
VARIABLES
    weights,        \* {ticker: weight}, the argument `weights`
    betas,          \* {ticker: loadings}, the argument `betas`
    factor_cov,     \* the 3x3 matrix F, the argument `factor_cov`
    residual_vars,  \* {ticker: residual variance}, the argument `residual_vars`
    result,         \* what decompose_portfolio_variance(weights, ...) produced
    scale,          \* the constant c of the second call (0: no second call yet)
    scaled_result,  \* what decompose_portfolio_variance(c * weights, ...) produced
    pc              \* "input" | "decomposed" | "scaled"

\* run_factor_regression (factor_pipeline.py)
VARIABLES
    excess_returns, \* {date: excess return or NaN}, the argument `excess_returns`
    ff_index,       \* the dates that have a row in the argument `ff_df`
    window,         \* the argument `window`
    min_obs,        \* the argument `min_obs`
    ols,            \* what sm.OLS(...).fit() did, if it was called
    regression      \* what run_factor_regression(...) returned

\* compute_factor_covariance (decomposition.py)
VARIABLES
    ff_rows,        \* the rows of `ff_df`, oldest first: TRUE where no factor is missing
    cov_window,     \* the argument `window`
    cov_result      \* what compute_factor_covariance(ff_df, window) produced

\* build_flamegraph_json (decomposition.py)
VARIABLES
    fg_decomposition, \* the argument `decomposition`; stock_contributions in dict order
    flamegraph      \* what build_flamegraph_json(decomposition, betas) returned

\* generate_insight (insight.py)
VARIABLES
    ins_decomposition, \* the argument `decomposition`; stock_contributions in dict order
    insight         \* the sentence generate_insight(decomposition, positions) returned

\* analyze_portfolio (routers/analyze.py) with analyze_all (factor_pipeline.py)
VARIABLES
    positions,      \* request.positions: the submitted <<symbol, market_value>> pairs
    data,           \* what the data sources deliver during this request
    step,           \* the step the handler is about to run
    request,        \* the locals `tickers` and `weights` once computed
    pending,        \* the tickers the loop of analyze_all has still to visit
    loadings,       \* the dict `results` of analyze_all, `betas` in the handler
    outputs,        \* factor_cov, decomposition, flamegraph and insight once computed
    completed,      \* the steps that ran to completion, in order
    response        \* the HTTP response: none yet, 200 with a body, or an error

decompVars == <<weights, betas, factor_cov, residual_vars, result, scale, scaled_result, pc>>
regVars == <<excess_returns, ff_index, window, min_obs, ols, regression>>
covVars == <<ff_rows, cov_window, cov_result>>
flameVars == <<fg_decomposition, flamegraph>>
insightVars == <<ins_decomposition, insight>>
pipeVars == <<positions, data, step, request, pending, loadings, outputs, completed, response>>
vars == <<decompVars, regVars, covVars, flameVars, insightVars, pipeVars>>

Idle == "idle"
DecompIdle ==
    /\ weights = Idle
    /\ betas = Idle
    /\ factor_cov = Idle
    /\ residual_vars = Idle
    /\ result = Idle
    /\ scale = Idle
    /\ scaled_result = Idle
    /\ pc = Idle
RegIdle ==
    /\ excess_returns = Idle
    /\ ff_index = Idle
    /\ window = Idle
    /\ min_obs = Idle
    /\ ols = Idle
    /\ regression = Idle
CovIdle ==
    /\ ff_rows = Idle
    /\ cov_window = Idle
    /\ cov_result = Idle
FlameIdle ==
    /\ fg_decomposition = Idle
    /\ flamegraph = Idle
InsightIdle ==
    /\ ins_decomposition = Idle
    /\ insight = Idle
PipeIdle ==
    /\ positions = Idle
    /\ data = Idle
    /\ step = Idle
    /\ request = Idle
    /\ pending = Idle
    /\ loadings = Idle
    /\ outputs = Idle
    /\ completed = Idle
    /\ response = Idle

\* What each component's specification leaves alone.
nonDecompVars == <<regVars, covVars, flameVars, insightVars, pipeVars>>
NonDecompIdle == RegIdle /\ CovIdle /\ FlameIdle /\ InsightIdle /\ PipeIdle
nonRegVars == <<decompVars, covVars, flameVars, insightVars, pipeVars>>
NonRegIdle == DecompIdle /\ CovIdle /\ FlameIdle /\ InsightIdle /\ PipeIdle
nonCovVars == <<decompVars, regVars, flameVars, insightVars, pipeVars>>
NonCovIdle == DecompIdle /\ RegIdle /\ FlameIdle /\ InsightIdle /\ PipeIdle
nonFlameVars == <<decompVars, regVars, covVars, insightVars, pipeVars>>
NonFlameIdle == DecompIdle /\ RegIdle /\ CovIdle /\ InsightIdle /\ PipeIdle
nonInsightVars == <<decompVars, regVars, covVars, flameVars, pipeVars>>
NonInsightIdle == DecompIdle /\ RegIdle /\ CovIdle /\ FlameIdle /\ PipeIdle
nonPipeVars == <<decompVars, regVars, covVars, flameVars, insightVars>>
NonPipeIdle == DecompIdle /\ RegIdle /\ CovIdle /\ FlameIdle /\ InsightIdle

----------------------------------------------------------------------------
(* Bounds of the explored inputs *)

MaxWeight == 2      \* weights range over -1..MaxWeight tenths (-1: a short position)
MaxResid == 1       \* residual variances range over 0..MaxResid (units of 1e-6)
MaxScale == 3       \* the scaling constants c range over 2..MaxScale

Tickers == {"AAPL", "MSFT"}
WeightVals == -1..MaxWeight
ResidVals == 0..MaxResid
Scales == 2..MaxScale

\* Loadings <<beta_mkt, beta_smb, beta_hml>> an instrument may have.
LoadingVals ==
    { <<0, 0, 0>>, <<1, 0, 0>>, <<1, 1, 1>>, <<1, -1, 0>>, <<-1, 0, 1>> }

\* Factor covariance matrices (units of 1e-6): symmetric and positive
\* semidefinite, as every sample covariance matrix is.
FactorCovs ==
    { << <<1, 0, 0>>,  <<0, 1, 0>>,  <<0, 0, 1>> >>,     \* uncorrelated factors
      << <<1, -1, 0>>, <<-1, 1, 0>>, <<0, 0, 1>> >>,     \* singular: size = -market
      << <<2, -1, 1>>, <<-1, 2, 0>>, <<1, 0, 1>> >> }    \* all three correlated

Factors == 1..3     \* column k of B: 1 market, 2 smb, 3 hml

----------------------------------------------------------------------------
(* Exact rational arithmetic *)

Abs(x) == IF x < 0 THEN -x ELSE x

RECURSIVE GCD(_, _)
GCD(a, b) == IF b = 0 THEN a ELSE GCD(b, a % b)

\* The rational n/d (d # 0) in lowest terms with a positive denominator.
Rat(n, d) ==
    LET g == GCD(Abs(n), Abs(d))
        s == IF d < 0 THEN -1 ELSE 1
    IN  <<s * (n \div g), s * (d \div g)>>

Zero == <<0, 1>>
Hundred == <<100, 1>>
FromInt(n) == <<n, 1>>

RAdd(a, b) ==
    LET g == GCD(a[2], b[2])
        l == (a[2] \div g) * b[2]
    IN  Rat(a[1] * (l \div a[2]) + b[1] * (l \div b[2]), l)

RMul(a, b) ==
    LET g1 == GCD(Abs(a[1]), b[2])
        g2 == GCD(Abs(b[1]), a[2])
    IN  Rat((a[1] \div g1) * (b[1] \div g2), (a[2] \div g2) * (b[2] \div g1))

\* a / b for b # 0
RDiv(a, b) == RMul(a, IF b[1] < 0 THEN <<-b[2], -b[1]>> ELSE <<b[2], b[1]>>)

RLt(a, b) == a[1] * b[2] < b[1] * a[2]
RLe(a, b) == a[1] * b[2] <= b[1] * a[2]

\* Python's max(a, b): b only when it is strictly greater.
RMax(a, b) == IF RLt(a, b) THEN b ELSE a

\* x as a whole number of hundredths, for x a multiple of 1/100.
Hundredths(x) == (x[1] * 100) \div x[2]

\* The integer nearest to sqrt(x) for an integer x >= 0: the largest h with
\* (2h - 1)^2 <= 4x, found by bisection.
RECURSIVE RoundSqrtIn(_, _, _)
RoundSqrtIn(x, lo, hi) ==
    IF lo = hi THEN lo
    ELSE LET mid == (lo + hi + 1) \div 2
         IN  IF (2 * mid - 1) * (2 * mid - 1) <= 4 * x
             THEN RoundSqrtIn(x, mid, hi)
             ELSE RoundSqrtIn(x, lo, mid - 1)

RoundSqrt(x) == RoundSqrtIn(x, 0, 23170)

RECURSIVE SumOver(_, _)
SumOver(f, S) ==
    IF S = {} THEN 0
    ELSE LET x == CHOOSE y \in S : TRUE
         IN  f[x] + SumOver(f, S \ {x})

RECURSIVE RSumOver(_, _)
RSumOver(f, S) ==
    IF S = {} THEN Zero
    ELSE LET x == CHOOSE y \in S : TRUE
         IN  RAdd(f[x], RSumOver(f, S \ {x}))

\* Python's round(x, 2) on the exact value: the nearest multiple of 1/100,
\* a tie going to the even hundredth.
Round2(x) ==
    LET d == x[2]
        q == x[1] \div d
        r == x[1] % d
        t == (r * 100) \div d
        rem == (r * 100) % d
        h == q * 100 + t
    IN  Rat(IF 2 * rem > d THEN h + 1
            ELSE IF 2 * rem < d THEN h
            ELSE IF h % 2 = 0 THEN h ELSE h + 1, 100)

----------------------------------------------------------------------------
(* decompose_portfolio_variance and its helpers *)

TRADING_DAYS == 252

NoResult == [status |-> "none"]
Raised(e) == [status |-> "raised", error |-> e]

\* B: one row of three loadings per ticker.
B_matrix(tickers, bs) ==
    [t \in tickers |-> <<bs[t].beta_mkt, bs[t].beta_smb, bs[t].beta_hml>>]

\* Mutant of D_matrix: every residual variance floored at one unit.
D_matrix_floored(tickers, rv) ==
    [i \in tickers |-> [j \in tickers |->
        IF i = j THEN (IF i \in DOMAIN rv /\ rv[i] > 1 THEN rv[i] ELSE 1) ELSE 0]]

\* D = np.diag([residual_vars.get(t, 0.0) for t in tickers])
D_matrix(tickers, rv) ==
    [i \in tickers |-> [j \in tickers |->
        IF i = j THEN (IF i \in DOMAIN rv THEN rv[i] ELSE 0) ELSE 0]]

\* B @ F @ B.T
systematic_cov(tickers, B, F) ==
    [i \in tickers |-> [j \in tickers |->
        SumOver([k \in Factors |->
            SumOver([l \in Factors |-> B[i][k] * F[k][l] * B[j][l]], Factors)],
            Factors)]]

\* Mutant of sigma_matrix: the residual variances D left out of sigma.
sigma_matrix_systematic_only(tickers, S, D) ==
    [i \in tickers |-> [j \in tickers |-> S[i][j]]]

\* systematic_cov + D
sigma_matrix(tickers, S, D) ==
    [i \in tickers |-> [j \in tickers |-> S[i][j] + D[i][j]]]

\* w @ M @ w
Quad(tickers, w, M) ==
    SumOver([i \in tickers |->
        SumOver([j \in tickers |-> w[i] * M[i][j] * w[j]], tickers)], tickers)

\* w @ B[:, k]
Exposure(tickers, w, B, k) == SumOver([i \in tickers |-> w[i] * B[i][k]], tickers)

\* max(float((w * b_k) @ (w * b_k)) * F[k, k], 0.0), in variance units
pure_contribution(tickers, w, B, F, k) ==
    LET contrib ==
            SumOver([i \in tickers |-> (w[i] * B[i][k]) * (w[i] * B[i][k])], tickers)
            * F[k][k]
    IN  IF contrib > 0 THEN contrib ELSE 0

\* Mutant of apportion: the cross residual split evenly over the three factors.
apportion_evenly(raw, cross_terms) ==
    LET pure_factor_sum == SumOver(raw, Factors)
    IN  IF pure_factor_sum > 0 /\ cross_terms # 0
        THEN [k \in Factors |-> RAdd(FromInt(raw[k]), Rat(cross_terms, 3))]
        ELSE [k \in Factors |-> FromInt(raw[k])]

\* The loop of lines 97-100: every factor takes cross_terms * share on top of
\* its pure contribution when there is something to apportion.
apportion(raw, cross_terms) ==
    LET pure_factor_sum == SumOver(raw, Factors)
    IN  IF pure_factor_sum > 0 /\ cross_terms # 0
        THEN [k \in Factors |->
                RAdd(FromInt(raw[k]),
                     RMul(FromInt(cross_terms), Rat(raw[k], pure_factor_sum)))]
        ELSE [k \in Factors |-> FromInt(raw[k])]

\* (x / total_var) * 100
PctOf(x, total_var) == RMul(RDiv(x, FromInt(total_var)), Hundred)

\* raw_pcts before renormalization: each percentage clamped at 0.
clamped_pcts(contribs, idio_var, total_var) ==
    [market_pct |-> RMax(PctOf(contribs[1], total_var), Zero),
     smb_pct |-> RMax(PctOf(contribs[2], total_var), Zero),
     hml_pct |-> RMax(PctOf(contribs[3], total_var), Zero),
     idiosyncratic_pct |-> RMax(PctOf(FromInt(idio_var), total_var), Zero)]

PctKeys == {"market_pct", "smb_pct", "hml_pct", "idiosyncratic_pct"}

\* Mutant of renormalize: scale = 1 / total_raw, fractions instead of percent.
renormalize_fraction(raw_pcts) ==
    LET total_raw == RSumOver(raw_pcts, PctKeys)
    IN  IF RLt(Zero, total_raw)
        THEN [key \in PctKeys |-> RMul(raw_pcts[key], RDiv(FromInt(1), total_raw))]
        ELSE raw_pcts

\* Lines 115-119: scale the four percentages to sum to 100.
renormalize(raw_pcts) ==
    LET total_raw == RSumOver(raw_pcts, PctKeys)
    IN  IF RLt(Zero, total_raw)
        THEN [key \in PctKeys |-> RMul(raw_pcts[key], RDiv(Hundred, total_raw))]
        ELSE raw_pcts

\* The integer part of sqrt(x) for an integer x >= 0.
RECURSIVE FloorSqrtIn(_, _, _)
FloorSqrtIn(x, lo, hi) ==
    IF lo = hi THEN lo
    ELSE LET mid == (lo + hi + 1) \div 2
         IN  IF mid * mid <= x THEN FloorSqrtIn(x, mid, hi) ELSE FloorSqrtIn(x, lo, mid - 1)

\* Mutant of rounded_annual_vol: the volatility cut to two decimals, not rounded.
truncated_annual_vol(total_var) == Rat(FloorSqrtIn(TRADING_DAYS * total_var, 0, 46340), 100)

\* round(float(np.sqrt(total_var * 252) * 100), 2).  total_var is V variance
\* units of 1e-8, so the volatility is sqrt(252 * V) / 100 percent, and its
\* nearest multiple of 1/100 is RoundSqrt(252 * V) hundredths.
rounded_annual_vol(total_var) == Rat(RoundSqrt(TRADING_DAYS * total_var), 100)

\* max(float(contrib / total_var * 100), 0) if total_var > 0 else 0
contribution_pct(contrib, total_var) ==
    IF total_var > 0 THEN RMax(PctOf(FromInt(contrib), total_var), Zero) ELSE Zero

\* Mutant of compute_stock_contributions: the instrument's own weight left out.
compute_stock_contributions_unweighted(tickers, w, B, F, D, total_var) ==
    [i \in tickers |->
        LET mkt_contrib == B[i][1] * Exposure(tickers, w, B, 1) * F[1][1]
            smb_contrib == B[i][2] * Exposure(tickers, w, B, 2) * F[2][2]
            hml_contrib == B[i][3] * Exposure(tickers, w, B, 3) * F[3][3]
            idio_contrib == D[i][i]
        IN  [market_contribution |-> contribution_pct(mkt_contrib, total_var),
             smb_contribution |-> contribution_pct(smb_contrib, total_var),
             hml_contribution |-> contribution_pct(hml_contrib, total_var),
             idio_contribution |-> contribution_pct(idio_contrib, total_var),
             weight |-> w[i]]]

compute_stock_contributions(tickers, w, B, F, D, total_var) ==
    [i \in tickers |->
        LET mkt_contrib == w[i] * B[i][1] * Exposure(tickers, w, B, 1) * F[1][1]
            smb_contrib == w[i] * B[i][2] * Exposure(tickers, w, B, 2) * F[2][2]
            hml_contrib == w[i] * B[i][3] * Exposure(tickers, w, B, 3) * F[3][3]
            idio_contrib == (w[i] * w[i]) * D[i][i]
        IN  [market_contribution |-> contribution_pct(mkt_contrib, total_var),
             smb_contribution |-> contribution_pct(smb_contrib, total_var),
             hml_contribution |-> contribution_pct(hml_contrib, total_var),
             idio_contribution |-> contribution_pct(idio_contrib, total_var),
             weight |-> w[i]]]

\* Mutant of zero_result: the four buckets reported as 0 instead of 25.
zero_result_zeros(tickers, ws) ==
    [status |-> "ok",
     market_pct |-> Zero,
     smb_pct |-> Zero,
     hml_pct |-> Zero,
     idiosyncratic_pct |-> Zero,
     total_annual_vol |-> Zero,
     total_daily_var |-> 0,
     stock_contributions |->
        [t \in tickers |->
            [market_contribution |-> Zero, smb_contribution |-> Zero,
             hml_contribution |-> Zero, idio_contribution |-> Zero,
             weight |-> IF t \in DOMAIN ws THEN ws[t] ELSE 0]]]

zero_result(tickers, ws) ==
    [status |-> "ok",
     market_pct |-> FromInt(25),
     smb_pct |-> FromInt(25),
     hml_pct |-> FromInt(25),
     idiosyncratic_pct |-> FromInt(25),
     total_annual_vol |-> Zero,
     total_daily_var |-> 0,
     stock_contributions |->
        [t \in tickers |->
            [market_contribution |-> Zero, smb_contribution |-> Zero,
             hml_contribution |-> Zero, idio_contribution |-> Zero,
             weight |-> IF t \in DOMAIN ws THEN ws[t] ELSE 0]]]

\* Mutant of idio_variance: w @ diag(D), linear in the weights.
idio_variance_linear(tickers, w, D) == SumOver([i \in tickers |-> w[i] * D[i][i]], tickers)

\* w @ D @ w
idio_variance(tickers, w, D) == Quad(tickers, w, D)

\* float(w @ sigma @ w) with sigma = B @ F @ B.T + D
total_variance(ws, bs, F, rv) ==
    LET tickers == DOMAIN ws
        B == B_matrix(tickers, bs)
    IN  Quad(tickers, ws,
             sigma_matrix(tickers, systematic_cov(tickers, B, F), D_matrix(tickers, rv)))

\* raw_pcts as it stands after line 119: apportioned, clamped, renormalized,
\* not yet rounded.
renormalized_pcts(ws, bs, F, rv) ==
    LET tickers == DOMAIN ws
        B == B_matrix(tickers, bs)
        D == D_matrix(tickers, rv)
        total_var == total_variance(ws, bs, F, rv)
        raw == [k \in Factors |-> pure_contribution(tickers, ws, B, F, k)]
        total_systematic == Quad(tickers, ws, systematic_cov(tickers, B, F))
        cross_terms == total_systematic - SumOver(raw, Factors)
    IN  renormalize(clamped_pcts(apportion(raw, cross_terms),
                                 idio_variance(tickers, ws, D), total_var))

\* (cross_terms / total_var) * 100 with cross_terms of line 91
cross_factor_share(ws, bs, F, rv) ==
    LET tickers == DOMAIN ws
        B == B_matrix(tickers, bs)
        raw == [k \in Factors |-> pure_contribution(tickers, ws, B, F, k)]
        total_systematic == Quad(tickers, ws, systematic_cov(tickers, B, F))
    IN  PctOf(FromInt(total_systematic - SumOver(raw, Factors)),
              total_variance(ws, bs, F, rv))

\* Lines 75-138: the result when total_var > 0.
decomposition_result(ws, bs, F, rv) ==
    LET tickers == DOMAIN ws
        total_var == total_variance(ws, bs, F, rv)
        raw_pcts == renormalized_pcts(ws, bs, F, rv)
    IN  [status |-> "ok",
         market_pct |-> Round2(raw_pcts["market_pct"]),
         smb_pct |-> Round2(raw_pcts["smb_pct"]),
         hml_pct |-> Round2(raw_pcts["hml_pct"]),
         idiosyncratic_pct |-> Round2(raw_pcts["idiosyncratic_pct"]),
         cross_factor_pct |-> Round2(cross_factor_share(ws, bs, F, rv)),
         total_annual_vol |-> rounded_annual_vol(total_var),
         total_daily_var |-> total_var,
         stock_contributions |->
            compute_stock_contributions(tickers, ws, B_matrix(tickers, bs), F,
                                        D_matrix(tickers, rv), total_var)]

\* With no ticker, np.array([]) has shape (0,), so B @ F (a (0,) by (3, 3)
\* product) raises ValueError before any variance is computed.
decompose_portfolio_variance(ws, bs, F, rv) ==
    IF DOMAIN ws = {} THEN Raised("ValueError")
    ELSE IF total_variance(ws, bs, F, rv) <= 0 THEN zero_result(DOMAIN ws, ws)
    ELSE decomposition_result(ws, bs, F, rv)

----------------------------------------------------------------------------
(* The state machine: inputs are drawn, then the function is applied to   *)
(* them, then to the same inputs with the weights multiplied by c.        *)

Portfolios == UNION { [T -> WeightVals] : T \in SUBSET Tickers }

Init ==
    /\ weights \in Portfolios
    /\ betas \in [DOMAIN weights -> { [beta_mkt |-> b[1], beta_smb |-> b[2], beta_hml |-> b[3]]
                                       : b \in LoadingVals }]
    /\ residual_vars \in [DOMAIN weights -> ResidVals]
    /\ factor_cov \in FactorCovs
    /\ result = NoResult
    /\ scale = 0
    /\ scaled_result = NoResult
    /\ pc = "input"
    /\ NonDecompIdle

Decompose ==
    /\ pc = "input"
    /\ result' = decompose_portfolio_variance(weights, betas, factor_cov, residual_vars)
    /\ pc' = "decomposed"
    /\ UNCHANGED <<weights, betas, factor_cov, residual_vars, scale, scaled_result>>
    /\ UNCHANGED nonDecompVars

ScaledWeights(c) == [t \in DOMAIN weights |-> c * weights[t]]

DecomposeScaled ==
    /\ pc = "decomposed"
    /\ \E c \in Scales :
        /\ scale' = c
        /\ scaled_result' =
              decompose_portfolio_variance(ScaledWeights(c), betas, factor_cov, residual_vars)
    /\ pc' = "scaled"
    /\ UNCHANGED <<weights, betas, factor_cov, residual_vars, result>>
    /\ UNCHANGED nonDecompVars

Next == Decompose \/ DecomposeScaled

Spec == Init /\ [][Next]_vars

\* A single call of decompose_portfolio_variance, without the rescaled one.
NextDecompose == Decompose

SpecDecompose == Init /\ [][NextDecompose]_vars

----------------------------------------------------------------------------
(* Properties *)

RSub(a, b) == RAdd(a, <<-b[1], b[2]>>)
RAbs(a) == <<Abs(a[1]), a[2]>>

Decomposed == pc # "input"
InputTickers == DOMAIN weights
InputTotalVar == total_variance(weights, betas, factor_cov, residual_vars)
SumPcts(r) == RSumOver(r, PctKeys)
AllPcts(r, x) == \A key \in PctKeys : r[key] = x
ContributionKeys ==
    {"market_contribution", "smb_contribution", "hml_contribution", "idio_contribution"}

IsFallback(r, ws) ==
    /\ r.status = "ok"
    /\ AllPcts(r, FromInt(25))
    /\ r.total_annual_vol = Zero
    /\ DOMAIN r.stock_contributions = DOMAIN ws
    /\ \A t \in DOMAIN ws :
        /\ \A c \in ContributionKeys : r.stock_contributions[t][c] = Zero
        /\ r.stock_contributions[t].weight = ws[t]

\* C2: whenever the total variance w^T (B F B^T + D) w is <= 0 the function
\* returns the fixed fallback: four buckets of 25, total_annual_vol 0, every
\* ticker's four contributions 0 and its weight unchanged.
C2_FallbackWhenNoVariance ==
    (Decomposed /\ InputTotalVar <= 0) => IsFallback(result, weights)

C4_NeverRaises ==
    Decomposed =>
        /\ result.status = "ok"
        /\ \A key \in PctKeys : key \in DOMAIN result
        /\ DOMAIN result.stock_contributions = InputTickers

\* C5: scale invariance.  Decomposing with the weights c * w (c > 0, the
\* other arguments unchanged) gives the same four bucket percentages as
\* with w, and total_daily_var multiplied by c^2.
C5_ScaleInvariance ==
    (pc = "scaled") =>
        /\ scaled_result.status = result.status
        /\ result.status = "ok" =>
            /\ \A key \in PctKeys : scaled_result[key] = result[key]
            /\ scaled_result.total_daily_var = scale * scale * result.total_daily_var

\* A non-degenerate two-instrument decomposition with market, size and
\* idiosyncratic risk, decomposed again with every weight tripled.
C5_Witness ==
    /\ pc = "scaled" /\ scale = 3
    /\ InputTickers = Tickers
    /\ result.status = "ok" /\ result.total_daily_var > 0
    /\ RLt(Zero, result.market_pct)
    /\ RLt(Zero, result.smb_pct)
    /\ RLt(Zero, result.idiosyncratic_pct)
    /\ scaled_result.total_daily_var = 9 * result.total_daily_var

AllLoadingsZero ==
    \A t \in InputTickers :
        betas[t].beta_mkt = 0 /\ betas[t].beta_smb = 0 /\ betas[t].beta_hml = 0

OnlyIdiosyncratic(r) ==
    /\ r.status = "ok"
    /\ r.idiosyncratic_pct = Hundred
    /\ r.market_pct = Zero /\ r.smb_pct = Zero /\ r.hml_pct = Zero

\* C6 as stated (for a mapping with at least one ticker): if every
\* instrument's three loadings are 0 and the residual variances are nonzero,
\* idiosyncratic_pct = 100 and the three factor buckets are 0.
C6_ZeroLoadingsAllIdio ==
    (/\ Decomposed /\ InputTickers # {}
     /\ AllLoadingsZero
     /\ \A t \in InputTickers : residual_vars[t] # 0)
        => OnlyIdiosyncratic(result)

\* C6 amended: if every instrument's three loadings are 0, the residual
\* variances are positive and some weight is not 0, idiosyncratic_pct = 100
\* and the three factor buckets are 0.
C6_ZeroLoadingsAllIdioUnlessDegenerate ==
    (/\ Decomposed
     /\ AllLoadingsZero
     /\ \A t \in InputTickers : residual_vars[t] > 0
     /\ \E t \in InputTickers : weights[t] # 0)
        => OnlyIdiosyncratic(result)

\* Two instruments without loadings, one of them held, under a factor
\* covariance with correlated factors.
C6_Witness ==
    /\ Decomposed /\ InputTickers = Tickers
    /\ AllLoadingsZero
    /\ \A t \in InputTickers : residual_vars[t] > 0
    /\ \E t \in InputTickers : weights[t] # 0
    /\ \E t \in InputTickers : weights[t] = 0
    /\ factor_cov[1][2] # 0
    /\ result.idiosyncratic_pct = Hundred

\* C7 as stated (for a mapping with at least one ticker): if every residual
\* variance is 0 then idiosyncratic_pct = 0, whatever the weights, loadings
\* and factor covariance are.
C7_NoResidualNoIdio ==
    (/\ Decomposed /\ InputTickers # {}
     /\ \A t \in InputTickers : residual_vars[t] = 0)
        => (result.status = "ok" /\ result.idiosyncratic_pct = Zero)

\* C7 amended: if every residual variance is 0 and the total variance is
\* > 0 then idiosyncratic_pct = 0.
C7_NoResidualNoIdioUnlessDegenerate ==
    (/\ Decomposed
     /\ \A t \in InputTickers : residual_vars[t] = 0
     /\ InputTotalVar > 0)
        => (result.status = "ok" /\ result.idiosyncratic_pct = Zero)

\* Two held instruments without residual variance whose factor exposure
\* gives the portfolio a variance.
C7_Witness ==
    /\ Decomposed /\ InputTickers = Tickers
    /\ \A t \in InputTickers : residual_vars[t] = 0 /\ weights[t] # 0
    /\ InputTotalVar > 0
    /\ result.idiosyncratic_pct = Zero
    /\ RLt(Zero, result.market_pct)

\* total_annual_vol in hundredths of a percent.  With total_daily_var = V
\* variance units of 1e-8, sqrt(total_daily_var * 252) * 100 is sqrt(252 * V)
\* hundredths.
VolHundredths(r) == Hundredths(r.total_annual_vol)

\* C8 as stated: for every non-degenerate decomposition total_annual_vol
\* equals sqrt(total_daily_var * 252) * 100 exactly.
C8_AnnualVolExact ==
    (Decomposed /\ result.status = "ok" /\ result.total_daily_var > 0) =>
        VolHundredths(result) * VolHundredths(result)
            = TRADING_DAYS * result.total_daily_var

\* C8 amended: for every non-degenerate decomposition total_annual_vol is
\* sqrt(total_daily_var * 252) * 100 rounded to two decimals: a multiple of
\* 0.01 within 0.005 of it.
C8_AnnualVolRounded ==
    (Decomposed /\ result.status = "ok" /\ result.total_daily_var > 0) =>
        LET h == VolHundredths(result)
            x == TRADING_DAYS * result.total_daily_var
        IN  /\ h > 0
            /\ result.total_annual_vol = Rat(h, 100)
            /\ (2 * h - 1) * (2 * h - 1) <= 4 * x
            /\ 4 * x <= (2 * h + 1) * (2 * h + 1)

\* A non-degenerate decomposition whose volatility is rounded down, and not
\* to the exact value.
C8_Witness ==
    /\ Decomposed /\ result.status = "ok" /\ result.total_daily_var > 0
    /\ VolHundredths(result) * VolHundredths(result)
          < TRADING_DAYS * result.total_daily_var
    /\ InputTickers = Tickers

\* C9: a ticker whose weight is 0 has all four contributions exactly 0,
\* whatever its loadings and residual variance, in the fallback and in the
\* non-degenerate case.
C9_ZeroWeightZeroContribution ==
    (Decomposed /\ result.status = "ok") =>
        \A t \in InputTickers :
            weights[t] = 0 =>
                \A c \in ContributionKeys : result.stock_contributions[t][c] = Zero

\* A non-degenerate decomposition with an instrument of weight 0 that has
\* loadings and residual variance, beside an instrument that is held.
C9_Witness ==
    /\ Decomposed /\ result.status = "ok" /\ result.total_daily_var > 0
    /\ \E t \in InputTickers :
        /\ weights[t] = 0
        /\ betas[t].beta_mkt # 0 /\ betas[t].beta_smb # 0
        /\ residual_vars[t] > 0
        /\ \E u \in InputTickers :
            /\ RLt(Zero, result.stock_contributions[u].market_contribution)
            /\ RLt(Zero, result.stock_contributions[u].idio_contribution)

\* C10: every per-instrument contribution is a percentage of the total
\* variance that is never negative and never above 100.
C10_ContributionsWithin0And100 ==
    (Decomposed /\ result.status = "ok") =>
        \A t \in InputTickers : \A c \in ContributionKeys :
            /\ RLe(Zero, result.stock_contributions[t][c])
            /\ RLe(result.stock_contributions[t][c], Hundred)

----------------------------------------------------------------------------
(* Cross-factor residual and apportionment *)

InputB == B_matrix(InputTickers, betas)
PureContributions ==
    [k \in Factors |-> pure_contribution(InputTickers, weights, InputB, factor_cov, k)]
PureFactorSum == SumOver(PureContributions, Factors)
TotalSystematic == Quad(InputTickers, weights, systematic_cov(InputTickers, InputB, factor_cov))
CrossTerms == TotalSystematic - PureFactorSum
FactorBuckets == apportion(PureContributions, CrossTerms)
BucketKey == <<"market_pct", "smb_pct", "hml_pct">>
NonDegenerate == Decomposed /\ result.status = "ok" /\ InputTotalVar > 0

\* C11: every result the decomposition returns, the degenerate fallback
\* included, has a cross_factor_pct entry.
C11_CrossFactorPctReturned ==
    (Decomposed /\ result.status = "ok") => "cross_factor_pct" \in DOMAIN result

\* C17: when the clamped pure contributions sum to more than 0, the three
\* factor buckets add up to total_systematic and keep the proportions of the
\* pure contributions, and the returned factor percentages are those buckets
\* over the total variance; when the pure contributions sum to 0, nothing is
\* added to any bucket and the residual shows in cross_factor_pct only.
C17_CrossTermsApportioned ==
    NonDegenerate =>
        LET pure == PureContributions
            pure_sum == SumOver(pure, Factors)
            systematic == TotalSystematic
            cross == systematic - pure_sum
            buckets == apportion(pure, cross)
            total_var == InputTotalVar
        IN  /\ pure_sum > 0 =>
                /\ RSumOver(buckets, Factors) = FromInt(systematic)
                /\ \A k \in Factors :
                    /\ RMul(buckets[k], FromInt(pure_sum)) = FromInt(pure[k] * systematic)
                    /\ result[BucketKey[k]] = Round2(PctOf(buckets[k], total_var))
            /\ pure_sum = 0 =>
                /\ \A k \in Factors : buckets[k] = Zero /\ result[BucketKey[k]] = Zero
                /\ result.cross_factor_pct = Round2(PctOf(FromInt(cross), total_var))

C17_Witness ==
    /\ NonDegenerate
    /\ PureFactorSum > 0
    /\ CrossTerms # 0
    /\ PureContributions[1] > PureContributions[2]
    /\ PureContributions[2] > 0
    /\ RLt(FromInt(PureContributions[1]), FactorBuckets[1])

IsDiagonal(F) == \A k \in Factors : \A l \in Factors : k # l => F[k][l] = 0

\* C18: with a diagonal factor covariance matrix the cross-factor residual,
\* and with it cross_factor_pct, is 0 for every weight vector and loadings.
C18_DiagonalFNoCrossResidual ==
    (NonDegenerate /\ IsDiagonal(factor_cov)) =>
        CrossTerms = 0 /\ result.cross_factor_pct = Zero

----------------------------------------------------------------------------
(* Factor regression: run_factor_regression of factor_pipeline.py.         *)
(* A date is a positive integer (larger is more recent); an excess return  *)
(* is an integer number of percent; np.var is computed exactly.  The fit   *)
(* of statsmodels' OLS is outside the repository: it either raises or      *)
(* yields parameters, and the model leaves open which.                     *)

MaxDates == 3       \* the series are indexed by dates drawn from 1..MaxDates
MaxWindow == 3      \* the argument window ranges over 1..MaxWindow
MaxMinObs == 3      \* the argument min_obs ranges over 1..MaxMinObs

Dates == 1..MaxDates
\* A float of a series: <<>> is NaN, <<v>> is the number v.
NaN == <<>>
ReturnVals == { <<0>>, <<2>> }
Windows == 1..MaxWindow
MinObsVals == 1..MaxMinObs
RegressionTicker == "AAPL"

\* A pandas Series of excess returns: a value or NaN at each date of its index.
ReturnSeries == UNION { [S -> ReturnVals \cup {NaN}] : S \in SUBSET Dates }

\* What sm.OLS(y, X_const).fit() can do: raise, or produce a fit.
OLSFits ==
    { [status |-> "ok", params |-> <<0, 1, 0, 0>>, rsquared |-> <<1, 2>>,
       resid_var |-> <<1, 1>>],
      [status |-> "ok", params |-> <<1, 2, -1, 1>>, rsquared |-> <<1, 1>>,
       resid_var |-> <<0, 1>>] }
OLSOutcomes == { Raised("Exception") } \cup OLSFits

\* excess_returns.dropna()
dropna(series) == [d \in { e \in DOMAIN series : series[e] # NaN } |-> series[d]]

\* Index.sort_values(): the dates in ascending order.
RECURSIVE sort_values(_)
sort_values(index) ==
    IF index = {} THEN <<>>
    ELSE LET oldest == CHOOSE d \in index : \A e \in index : d <= e
         IN  <<oldest>> \o sort_values(index \ {oldest})

\* common[-window:] for window >= 1
tail(seq, n) == SubSeq(seq, Len(seq) - n + 1, Len(seq))

SeqSum(y) == SumOver(y, DOMAIN y)

\* float(np.var(y)): the population variance, mean of squares minus squared mean.
np_var(y) ==
    LET n == Len(y)
        squares == [i \in DOMAIN y |-> y[i] * y[i]]
    IN  Rat(n * SeqSum(squares) - SeqSum(y) * SeqSum(y), n * n)

\* Lines 247-253: the dates the regression is run on, oldest first.
regression_dates(series, ff_idx, win) ==
    LET common == DOMAIN dropna(series) \cap ff_idx
        sorted == sort_values(common)
    IN  IF Len(sorted) > win THEN tail(sorted, win) ELSE sorted

empty_result(ticker) ==
    [ticker |-> ticker, beta_mkt |-> Zero, beta_smb |-> Zero, beta_hml |-> Zero,
     alpha |-> Zero, r_squared |-> Zero, residual_variance |-> Zero,
     n_observations |-> 0, sufficient_data |-> FALSE]

\* Mutant of insufficient_result: the variance of y dropped.
insufficient_result_no_variance(ticker, y) ==
    [ticker |-> ticker, beta_mkt |-> Zero, beta_smb |-> Zero, beta_hml |-> Zero,
     alpha |-> Zero, r_squared |-> Zero, residual_variance |-> Zero,
     n_observations |-> Len(y), sufficient_data |-> FALSE]

\* Lines 260-270: the result when n_obs < min_obs.
insufficient_result(ticker, y) ==
    [ticker |-> ticker, beta_mkt |-> Zero, beta_smb |-> Zero, beta_hml |-> Zero,
     alpha |-> Zero, r_squared |-> Zero,
     residual_variance |-> IF Len(y) > 0 THEN np_var(y) ELSE Zero,
     n_observations |-> Len(y), sufficient_data |-> FALSE]

\* Lines 279-289: the result of a fit that succeeded.
fitted_result(ticker, fit, n_obs) ==
    [ticker |-> ticker, beta_mkt |-> FromInt(fit.params[2]),
     beta_smb |-> FromInt(fit.params[3]), beta_hml |-> FromInt(fit.params[4]),
     alpha |-> FromInt(fit.params[1]), r_squared |-> fit.rsquared,
     residual_variance |-> fit.resid_var, n_observations |-> n_obs,
     sufficient_data |-> TRUE]

\* Lines 247-259: whether the call gets as far as fitting the model.
fit_attempted(series, ff_idx, win, min_o) ==
    /\ Cardinality(DOMAIN dropna(series) \cap ff_idx) # 0
    /\ Len(regression_dates(series, ff_idx, win)) >= min_o

run_factor_regression(ticker, series, ff_idx, win, min_o, fit) ==
    LET common == DOMAIN dropna(series) \cap ff_idx
        used == regression_dates(series, ff_idx, win)
        y == [i \in DOMAIN used |-> series[used[i]][1]]
        n_obs == Len(y)
    IN  IF Cardinality(common) = 0 THEN empty_result(ticker)
        ELSE IF n_obs < min_o THEN insufficient_result(ticker, y)
        ELSE IF fit.status = "raised" THEN empty_result(ticker)
        ELSE fitted_result(ticker, fit, n_obs)

InitRegression ==
    /\ excess_returns \in ReturnSeries
    /\ ff_index \in SUBSET Dates
    /\ window \in Windows
    /\ min_obs \in MinObsVals
    /\ ols = NoResult
    /\ regression = NoResult
    /\ NonRegIdle

Regress ==
    /\ regression = NoResult
    /\ \E fit \in OLSOutcomes :
        /\ ols' = IF fit_attempted(excess_returns, ff_index, window, min_obs)
                  THEN fit ELSE NoResult
        /\ regression' = run_factor_regression(RegressionTicker, excess_returns, ff_index,
                                               window, min_obs, fit)
    /\ UNCHANGED <<excess_returns, ff_index, window, min_obs>>
    /\ UNCHANGED nonRegVars

NextRegression == Regress

SpecRegression == InitRegression /\ [][NextRegression]_vars

----------------------------------------------------------------------------
(* Properties of the regression *)

Regressed == regression # NoResult
Min(a, b) == IF a < b THEN a ELSE b

\* The dates with a valid excess return and a factor row, and the
\* min(window, N) most recent of them.
JointDates == { d \in DOMAIN excess_returns : excess_returns[d] # NaN } \cap ff_index
UsableCount == Min(window, Cardinality(JointDates))
MostRecent ==
    { d \in JointDates : Cardinality({ e \in JointDates : e > d }) < UsableCount }

\* Mean squared deviation from the mean of the returns at the dates S.
VarianceOver(S) ==
    LET n == Cardinality(S)
        value == [d \in S |-> excess_returns[d][1]]
        mean == Rat(SumOver(value, S), n)
        dev == [d \in S |-> RSub(FromInt(value[d]), mean)]
    IN  RDiv(RSumOver([d \in S |-> RMul(dev[d], dev[d])], S), FromInt(n))

ZeroLoadings(r) ==
    /\ r.beta_mkt = Zero /\ r.beta_smb = Zero /\ r.beta_hml = Zero
    /\ r.alpha = Zero /\ r.r_squared = Zero
    /\ r.sufficient_data = FALSE

\* C12: with fewer usable observations than min_obs the regression returns
\* the degenerate result: zero betas, alpha and r_squared, sufficient_data
\* false, and residual_variance the (population) variance of the excess
\* returns it was left with, 0 when there are none.
C12_InsufficientDataDegenerate ==
    (Regressed /\ UsableCount < min_obs) =>
        /\ ZeroLoadings(regression)
        /\ regression.residual_variance =
              IF UsableCount = 0 THEN Zero ELSE VarianceOver(MostRecent)

C12_Witness ==
    /\ Regressed
    /\ UsableCount < min_obs
    /\ Cardinality(JointDates) > window
    /\ RLt(Zero, regression.residual_variance)
    /\ regression.n_observations = 2

\* C13: when the fit raises, the call returns the degenerate result of the
\* insufficient-observations case for the same data: zero loadings, the
\* variance of the available excess returns and their number.
C13_FitFailureSameDegenerateResult ==
    (Regressed /\ ols.status = "raised") =>
        /\ ZeroLoadings(regression)
        /\ regression.residual_variance = VarianceOver(MostRecent)
        /\ regression.n_observations = UsableCount

\* C19: the regression runs on the min(window, N) most recent of the N dates
\* that have a valid excess return and a factor row, and the reported
\* n_observations is that count.
C19_TrailingWindow ==
    Regressed =>
        /\ { regression_dates(excess_returns, ff_index, window)[i] :
                i \in 1..Len(regression_dates(excess_returns, ff_index, window)) }
              = MostRecent
        /\ regression.n_observations = UsableCount

----------------------------------------------------------------------------
(* Factor covariance: compute_factor_covariance of decomposition.py.       *)
(* ff_df is a sequence of rows in date order; a row is TRUE when none of   *)
(* its three factor returns is missing.  The matrix recent.cov() is        *)
(* represented by the rows it is estimated from.                           *)

MIN_FACTOR_OBS == 60
DEFAULT_WINDOW == 252
MaxExtraRows == 2   \* ff_df has MIN_FACTOR_OBS - MaxExtraRows .. MIN_FACTOR_OBS + MaxExtraRows rows
MaxMissingRows == 1 \* at most MaxMissingRows rows of ff_df have a missing factor

RECURSIVE SubsetsUpTo(_, _)
SubsetsUpTo(S, k) ==
    IF k = 0 THEN { {} }
    ELSE LET smaller == SubsetsUpTo(S, k - 1)
         IN  smaller \cup { p \cup {x} : p \in smaller, x \in S }

FrameLengths == (MIN_FACTOR_OBS - MaxExtraRows)..(MIN_FACTOR_OBS + MaxExtraRows)
FactorFrames ==
    UNION { { [i \in 1..len |-> i \notin missing] :
                missing \in SubsetsUpTo(1..len, MaxMissingRows) } : len \in FrameLengths }
CovWindows ==
    ((MIN_FACTOR_OBS - 1)..(MIN_FACTOR_OBS + MaxExtraRows)) \cup {DEFAULT_WINDOW}

\* ff_df[factor_cols].dropna(): the positions of the rows that stay.
dropna_rows(rows) ==
    SelectSeq([i \in 1..Len(rows) |-> i], LAMBDA i : rows[i])

\* DataFrame.tail(n) for n >= 1: the last n rows, all of them if there are fewer.
df_tail(seq, n) == IF Len(seq) > n THEN tail(seq, n) ELSE seq

\* Mutant of compute_factor_covariance: the trailing window not applied.
compute_factor_covariance_untrimmed(rows, win) ==
    LET recent == dropna_rows(rows)
    IN  IF Len(recent) < MIN_FACTOR_OBS THEN Raised("ValueError")
        ELSE [status |-> "ok", estimated_from |-> recent]

compute_factor_covariance(rows, win) ==
    LET recent == df_tail(dropna_rows(rows), win)
    IN  IF Len(recent) < MIN_FACTOR_OBS THEN Raised("ValueError")
        ELSE [status |-> "ok", estimated_from |-> recent]

InitCovariance ==
    /\ ff_rows \in FactorFrames
    /\ cov_window \in CovWindows
    /\ cov_result = NoResult
    /\ NonCovIdle

EstimateCovariance ==
    /\ cov_result = NoResult
    /\ cov_result' = compute_factor_covariance(ff_rows, cov_window)
    /\ UNCHANGED <<ff_rows, cov_window>>
    /\ UNCHANGED nonCovVars

NextCovariance == EstimateCovariance

SpecCovariance == InitCovariance /\ [][NextCovariance]_vars

(* Properties of the covariance estimator *)

CovEstimated == cov_result # NoResult
ValidRows == { i \in 1..Len(ff_rows) : ff_rows[i] }
RowsUsed == { cov_result.estimated_from[i] : i \in 1..Len(cov_result.estimated_from) }

\* C14: the estimator fails with the insufficient-data error whenever fewer
\* than 60 jointly valid observations are available, and a matrix it returns
\* is estimated from at least 60 and at most `window` observations, the most
\* recent jointly valid ones.
C14_CovarianceNeedsSixtyRows ==
    CovEstimated =>
        /\ Cardinality(ValidRows) < MIN_FACTOR_OBS => cov_result = Raised("ValueError")
        /\ cov_result.status = "ok" =>
            /\ Cardinality(RowsUsed) >= MIN_FACTOR_OBS
            /\ Cardinality(RowsUsed) <= cov_window
            /\ Cardinality(RowsUsed) = Len(cov_result.estimated_from)
            /\ RowsUsed \subseteq ValidRows
            /\ \A i \in ValidRows \ RowsUsed : \A j \in RowsUsed : i < j

C14_Witness ==
    /\ CovEstimated
    /\ cov_result.status = "ok"
    /\ Cardinality(ValidRows) > cov_window
    /\ \E i \in 1..Len(ff_rows) : ~ff_rows[i] /\ \E j \in RowsUsed : j < i

----------------------------------------------------------------------------
(* Flamegraph: build_flamegraph_json of decomposition.py.                  *)
(* stock_contributions is a Python dict: the model keeps it as the         *)
(* sequence of its items in insertion order, which is the order            *)
(* sc.items() yields and a stable sort falls back on.                      *)

FlameTickers == {"AAPL", "MSFT", "NVDA"}

\* Contributions (percent) on both sides of the 0.5 cut, two of them
\* (0.503 and 0.504) rounding to the same hundredth.
ContributionVals ==
    << <<0, 1>>, <<1, 2>>, <<503, 1000>>, <<63, 125>>, <<3, 5>>, <<40, 1>> >>

\* One instrument's four contributions: four consecutive values of ContributionVals.
ContributionProfiles ==
    { [market_contribution |-> ContributionVals[(j % 6) + 1],
       smb_contribution |-> ContributionVals[((j + 1) % 6) + 1],
       hml_contribution |-> ContributionVals[((j + 2) % 6) + 1],
       idio_contribution |-> ContributionVals[((j + 3) % 6) + 1],
       weight |-> 3] : j \in 0..5 }

\* The key order of a dict: the tickers without repetition.
TickerOrders ==
    { q \in UNION { [1..n -> FlameTickers] : n \in 1..Cardinality(FlameTickers) } :
        \A i \in DOMAIN q : \A j \in DOMAIN q : q[i] = q[j] => i = j }

AnnualVols == { <<0, 1>>, <<247, 20>>, <<249, 20>> }

\* The argument `betas`: the regression result of each ticker.
FlameBetas ==
    [t \in FlameTickers |->
        [beta_mkt |-> FromInt(1), beta_smb |-> Zero, beta_hml |-> FromInt(-1),
         r_squared |-> <<1, 2>>]]

FlameDecompositions ==
    UNION { { [market_pct |-> FromInt(40), smb_pct |-> FromInt(30),
               hml_pct |-> FromInt(20), idiosyncratic_pct |-> FromInt(10),
               total_annual_vol |-> vol,
               stock_contributions |-> [i \in DOMAIN order |-> <<order[i], profile[i]>>]] :
                vol \in AnnualVols, profile \in [DOMAIN order -> ContributionProfiles] } :
            order \in TickerOrders }

\* f"{vol:.1f}": vol to the nearest tenth.
format_1f(x) == RMul(Round2(RDiv(x, FromInt(10))), FromInt(10))

\* Lines 209-219: the leaf of one instrument.
leaf(ticker, contrib, val, bs) ==
    [name |-> ticker, value |-> Round2(val),
     meta |-> [beta_mkt |-> bs[ticker].beta_mkt, beta_smb |-> bs[ticker].beta_smb,
               beta_hml |-> bs[ticker].beta_hml, r_squared |-> bs[ticker].r_squared,
               weight |-> contrib.weight]]

\* sorted(children, key=lambda x: x["value"], reverse=True): stable, so
\* equal values keep their order.
RECURSIVE sorted_by_value_desc(_)
sorted_by_value_desc(children) ==
    IF children = <<>> THEN <<>>
    ELSE LET rest == sorted_by_value_desc(Tail(children))
             x == Head(children)
             before == SelectSeq(rest, LAMBDA c : RLt(x.value, c.value))
             after == SelectSeq(rest, LAMBDA c : ~RLt(x.value, c.value))
         IN  before \o <<x>> \o after

\* Lines 204-208: the items of sc whose contribution under factor_key is shown.
RECURSIVE shown_children(_, _, _)
shown_children(sc, bs, factor_key) ==
    IF sc = <<>> THEN <<>>
    ELSE LET ticker == Head(sc)[1]
             contrib == Head(sc)[2]
             val == contrib[factor_key]
         IN  (IF RLt(<<1, 2>>, val) THEN <<leaf(ticker, contrib, val, bs)>> ELSE <<>>)
                 \o shown_children(Tail(sc), bs, factor_key)

\* Mutant of make_factor_children: the children left in dict order.
make_factor_children_unsorted(sc, bs, factor_key) == shown_children(sc, bs, factor_key)

make_factor_children(sc, bs, factor_key) ==
    sorted_by_value_desc(shown_children(sc, bs, factor_key))

build_flamegraph_json(decomposition, bs) ==
    LET sc == decomposition.stock_contributions
        vol == decomposition.total_annual_vol
    IN  [name |-> <<"Your Portfolio - ", format_1f(vol), "% Annual Vol">>,
         value |-> Hundred,
         children |-> <<
            [name |-> "Market Beta", value |-> decomposition.market_pct,
             factor |-> "market",
             children |-> make_factor_children(sc, bs, "market_contribution")],
            [name |-> "SMB (Size)", value |-> decomposition.smb_pct,
             factor |-> "smb",
             children |-> make_factor_children(sc, bs, "smb_contribution")],
            [name |-> "HML (Value)", value |-> decomposition.hml_pct,
             factor |-> "hml",
             children |-> make_factor_children(sc, bs, "hml_contribution")],
            [name |-> "Idiosyncratic", value |-> decomposition.idiosyncratic_pct,
             factor |-> "idiosyncratic",
             children |-> make_factor_children(sc, bs, "idio_contribution")] >>]

InitFlamegraph ==
    /\ fg_decomposition \in FlameDecompositions
    /\ flamegraph = NoResult
    /\ NonFlameIdle

BuildFlamegraph ==
    /\ flamegraph = NoResult
    /\ flamegraph' = build_flamegraph_json(fg_decomposition, FlameBetas)
    /\ UNCHANGED fg_decomposition
    /\ UNCHANGED nonFlameVars

NextFlamegraph == BuildFlamegraph

SpecFlamegraph == InitFlamegraph /\ [][NextFlamegraph]_vars

(* Properties of the flamegraph *)

FlamegraphBuilt == flamegraph # NoResult
BucketContribution ==
    <<"market_contribution", "smb_contribution", "hml_contribution", "idio_contribution">>
Items == fg_decomposition.stock_contributions
ItemOf(ticker) == CHOOSE i \in DOMAIN Items : Items[i][1] = ticker
ContributionOf(ticker, b) == Items[ItemOf(ticker)][2][BucketContribution[b]]
Children(b) == flamegraph.children[b].children

----------------------------------------------------------------------------
(* Insight: generate_insight of insight.py.                                *)
(* The sentence returned is represented by the rule that produced it and   *)
(* the values formatted into it.                                           *)

InsightTickers == <<"AAPL", "MSFT", "NVDA", "AMZN", "TSLA", "META">>

\* The four bucket percentages: multiples of 5 that sum to 100.
InsightPcts ==
    { p \in { <<5 * m, 5 * s, 5 * h, 100 - 5 * (m + s + h)>> :
                m \in 0..20, s \in 0..20, h \in 0..20 } : p[4] >= 0 }

\* How the idiosyncratic percentage splits over the instruments, in dict
\* order: <<1, 4>> gives the first a fifth and the second four fifths;
\* <<>> is an empty stock_contributions.
IdioSplits ==
    { <<>>, <<1>>, <<1, 4>>, <<1, 3>>, <<1, 1, 1, 1, 1>>, <<1, 1, 1, 1, 1, 1>>,
      <<2, 2, 2, 2, 1, 3>> }

InsightDecompositions ==
    { [market_pct |-> FromInt(p[1]), smb_pct |-> FromInt(p[2]),
       hml_pct |-> FromInt(p[3]), idiosyncratic_pct |-> FromInt(p[4]),
       total_annual_vol |-> <<249, 20>>,
       stock_contributions |->
          [i \in DOMAIN split |->
              <<InsightTickers[i],
                [idio_contribution |-> Rat(p[4] * split[i], SeqSum(split))]>>]] :
        p \in InsightPcts, split \in IdioSplits }

\* f"{x:.0f}": x to the nearest integer.
format_0f(x) == RMul(Round2(RDiv(x, Hundred)), Hundred)

\* sum(s.get("idio_contribution", 0) for s in stock_contribs.values())
total_idio_of(sc) == RSumOver([i \in DOMAIN sc |-> sc[i][2].idio_contribution], DOMAIN sc)

\* (contrib.get("idio_contribution", 0) / total_idio) * 100
stock_share(sc, i) ==
    RMul(RDiv(sc[i][2].idio_contribution, total_idio_of(sc)), Hundred)

\* Lines 35-40: the items whose share of the idiosyncratic risk is above 20,
\* when the rule applies at all.
concentrated_stocks(decomposition) ==
    LET sc == decomposition.stock_contributions
    IN  IF /\ RLt(FromInt(10), decomposition.idiosyncratic_pct)
           /\ sc # <<>>
           /\ RLt(Zero, total_idio_of(sc))
        THEN { i \in DOMAIN sc : RLt(FromInt(20), stock_share(sc, i)) }
        ELSE {}

\* Lines 63-78: the two largest of the four components.
top_two(decomposition) ==
    LET components == sorted_by_value_desc(<<
            [name |-> "market exposure", value |-> decomposition.market_pct],
            [name |-> "size factor (SMB)", value |-> decomposition.smb_pct],
            [name |-> "value factor (HML)", value |-> decomposition.hml_pct],
            [name |-> "stock-specific risk", value |-> decomposition.idiosyncratic_pct] >>)
    IN  [rule |-> "top_two",
         top1_name |-> components[1].name, top1_pct |-> format_0f(components[1].value),
         top2_name |-> components[2].name, top2_pct |-> format_0f(components[2].value),
         vol |-> format_1f(decomposition.total_annual_vol)]

generate_insight(decomposition) ==
    LET sc == decomposition.stock_contributions
        concentrated == concentrated_stocks(decomposition)
        first == CHOOSE i \in concentrated : \A j \in concentrated : i <= j
    IN  IF RLt(FromInt(65), decomposition.market_pct)
        THEN [rule |-> "market", pct |-> format_0f(decomposition.market_pct)]
        ELSE IF concentrated # {}
        THEN [rule |-> "stock", ticker |-> sc[first][1],
              share |-> format_0f(stock_share(sc, first))]
        ELSE IF RLt(FromInt(20), decomposition.smb_pct)
        THEN [rule |-> "smb", pct |-> format_0f(decomposition.smb_pct)]
        ELSE IF RLt(FromInt(20), decomposition.hml_pct)
        THEN [rule |-> "hml", pct |-> format_0f(decomposition.hml_pct)]
        ELSE top_two(decomposition)

InitInsight ==
    /\ ins_decomposition \in InsightDecompositions
    /\ insight = NoResult
    /\ NonInsightIdle

GenerateInsight ==
    /\ insight = NoResult
    /\ insight' = generate_insight(ins_decomposition)
    /\ UNCHANGED ins_decomposition
    /\ UNCHANGED nonInsightVars

NextInsight == GenerateInsight

SpecInsight == InitInsight /\ [][NextInsight]_vars

(* Properties of the insight *)

InsightGenerated == insight # NoResult
InsightStocks == ins_decomposition.stock_contributions

\* Some instrument holds more than 20% of the idiosyncratic risk.
SomeStockAboveTwenty ==
    /\ InsightStocks # <<>>
    /\ RLt(Zero, total_idio_of(InsightStocks))
    /\ \E i \in DOMAIN InsightStocks : RLt(FromInt(20), stock_share(InsightStocks, i))

\* The rule the documented priority order selects.
DocumentedRule ==
    IF RLt(FromInt(65), ins_decomposition.market_pct) THEN "market"
    ELSE IF SomeStockAboveTwenty THEN "stock"
    ELSE IF RLt(FromInt(20), ins_decomposition.smb_pct) THEN "smb"
    ELSE "top_two"

\* C16: the sentence comes from the first rule that holds in the documented
\* order: market_pct > 65, then a single stock above 20% of the
\* idiosyncratic risk (the sentence names such a stock), then smb_pct > 20,
\* otherwise the top two risk drivers.
C16_DocumentedPriorityOrder ==
    InsightGenerated =>
        /\ insight.rule = DocumentedRule
        /\ insight.rule = "stock" =>
              \E i \in DOMAIN InsightStocks :
                  /\ InsightStocks[i][1] = insight.ticker
                  /\ RLt(FromInt(20), stock_share(InsightStocks, i))

----------------------------------------------------------------------------
(* Request handler: analyze_portfolio of routers/analyze.py, with the loop *)
(* of analyze_all (factor_pipeline.py) unfolded into one step per ticker.  *)
(* The downloads are outside the repository: `data` fixes what they        *)
(* deliver during the request.  The regression and the covariance estimate *)
(* are the operators above, called with their default window and           *)
(* min_obs; the decomposition, the flamegraph and the insight are kept as  *)
(* what they were computed from.                                           *)

MaxPositions == 2   \* a request carries 0..MaxPositions positions

REGRESSION_WINDOW == 252
MIN_OBS == 60

Symbols == {"aapl", "AAPL", "MSFT"}
MarketValues == {0, 1, 3}
PositionLists == UNION { [1..n -> Symbols \X MarketValues] : n \in 0..MaxPositions }

\* str.upper() on the symbols a request may carry.
upper(symbol) == IF symbol = "aapl" THEN "AAPL" ELSE symbol

\* The factor frame (one row short of the 60 the estimator needs, or just
\* enough), the tickers a price series comes back for, whether a price
\* history covers two days or every factor day, and whether the factor
\* download succeeds.
DataDeliveries ==
    [download_ok : BOOLEAN,
     priced : SUBSET { upper(s) : s \in Symbols },
     ff_rows : { [i \in 1..n |-> TRUE] : n \in {MIN_FACTOR_OBS - 1, MIN_FACTOR_OBS} },
     history : {"thin", "full"}]

\* excess[ticker]: the excess returns of a priced ticker.
excess_series(d) ==
    IF d.history = "thin" THEN [date \in 1..2 |-> <<2 * (date - 1)>>]
    ELSE [date \in 1..Len(d.ff_rows) |-> <<2 * (date % 2)>>]

\* sum(p.market_value for p in request.positions)
RECURSIVE total_value(_)
total_value(ps) == IF ps = <<>> THEN 0 ELSE Head(ps)[2] + total_value(Tail(ps))

\* [p.symbol.upper() for p in request.positions]
tickers_of(ps) == [i \in DOMAIN ps |-> upper(ps[i][1])]

\* {p.symbol.upper(): p.market_value / total_value for p in request.positions}:
\* a later position with the same key replaces an earlier one.
weights_of(ps) ==
    [t \in { upper(ps[i][1]) : i \in DOMAIN ps } |->
        LET last == CHOOSE i \in DOMAIN ps :
                        /\ upper(ps[i][1]) = t
                        /\ \A j \in DOMAIN ps : upper(ps[j][1]) = t => j <= i
        IN  Rat(ps[last][2], total_value(ps))]

HttpError(code, detail) == [status |-> code, detail |-> detail]

\* Lines 110-112: any exception inside the try block becomes a 500.
AnalysisFailed(error) == HttpError(500, <<"Analysis failed: ", error>>)

NoOutputs ==
    [factor_cov |-> NoResult, decomposition |-> NoResult, flamegraph |-> NoResult,
     insight |-> NoResult]

InitPipeline ==
    /\ positions \in PositionLists
    /\ data \in DataDeliveries
    /\ step = "validate"
    /\ request = NoResult
    /\ pending = <<>>
    /\ loadings = <<>>
    /\ outputs = NoOutputs
    /\ completed = <<>>
    /\ response = NoResult
    /\ NonPipeIdle

\* Lines 48-60.
Validate ==
    /\ step = "validate"
    /\ IF positions = <<>>
       THEN /\ response' = HttpError(400, "No positions provided")
            /\ step' = "done"
            /\ UNCHANGED request
       ELSE IF total_value(positions) <= 0
       THEN /\ response' = HttpError(400, "Total portfolio value must be positive")
            /\ step' = "done"
            /\ UNCHANGED request
       ELSE /\ request' = [status |-> "ok", tickers |-> tickers_of(positions),
                           weights |-> weights_of(positions)]
            /\ step' = "fetch"
            /\ UNCHANGED response
    /\ UNCHANGED <<positions, data, pending, loadings, outputs, completed>>
    /\ UNCHANGED nonPipeVars

\* analyze_all, lines 310-314: the downloads.  fetch_prices raises when no
\* requested ticker has prices.
FetchData ==
    /\ step = "fetch"
    /\ IF ~data.download_ok
       THEN /\ response' = AnalysisFailed("download_ff_factors")
            /\ step' = "done"
            /\ UNCHANGED <<pending, completed>>
       ELSE IF \A i \in DOMAIN request.tickers : request.tickers[i] \notin data.priced
       THEN /\ response' = AnalysisFailed("No price data returned for any ticker")
            /\ step' = "done"
            /\ UNCHANGED <<pending, completed>>
       ELSE /\ pending' = request.tickers
            /\ completed' = Append(completed, "fetch")
            /\ step' = "regress"
            /\ UNCHANGED response
    /\ UNCHANGED <<positions, data, request, loadings, outputs>>
    /\ UNCHANGED nonPipeVars

\* results[ticker] = result: a dict assignment.
dict_set(dict, key, value) ==
    [k \in DOMAIN dict \cup {key} |-> IF k = key THEN value ELSE dict[k]]

\* analyze_all, lines 315-320: one pass of the loop over tickers.
RegressTicker ==
    /\ step = "regress"
    /\ pending # <<>>
    /\ LET ticker == Head(pending)
       IN  \E fit \in OLSOutcomes :
              loadings' = dict_set(loadings, ticker,
                 IF ticker \in data.priced
                 THEN run_factor_regression(ticker, excess_series(data),
                                            1..Len(data.ff_rows), REGRESSION_WINDOW,
                                            MIN_OBS, fit)
                 ELSE empty_result(ticker))
    /\ pending' = Tail(pending)
    /\ IF Tail(pending) = <<>>
       THEN step' = "covariance" /\ completed' = Append(completed, "regress")
       ELSE UNCHANGED <<step, completed>>
    /\ UNCHANGED <<positions, data, request, outputs, response>>
    /\ UNCHANGED nonPipeVars

\* Mutant of estimate_factor_covariance: the length check of the estimator skipped.
estimate_factor_covariance_unchecked(d) ==
    [status |-> "ok", estimated_from |-> df_tail(dropna_rows(d.ff_rows), DEFAULT_WINDOW)]

\* Line 67: compute_factor_covariance(ff_df)
estimate_factor_covariance(d) == compute_factor_covariance(d.ff_rows, DEFAULT_WINDOW)

\* Line 67 and what the except clause makes of its ValueError.
EstimateFactorCovariance ==
    /\ step = "covariance"
    /\ LET factor_cov_ == estimate_factor_covariance(data)
       IN  IF factor_cov_.status = "raised"
           THEN /\ response' = AnalysisFailed("Insufficient factor data")
                /\ step' = "done"
                /\ UNCHANGED <<outputs, completed>>
           ELSE /\ outputs' = [outputs EXCEPT !.factor_cov = factor_cov_]
                /\ completed' = Append(completed, "covariance")
                /\ step' = "decompose"
                /\ UNCHANGED response
    /\ UNCHANGED <<positions, data, request, pending, loadings>>
    /\ UNCHANGED nonPipeVars

\* Lines 70-75: residual_vars and decompose_portfolio_variance.
DecomposeVariance ==
    /\ step = "decompose"
    /\ outputs' = [outputs EXCEPT !.decomposition =
            [status |-> "ok",
             weights |-> request.weights,
             betas |-> loadings,
             factor_cov |-> outputs.factor_cov,
             residual_vars |->
                [t \in { request.tickers[i] : i \in DOMAIN request.tickers } |->
                    loadings[t].residual_variance]]]
    /\ completed' = Append(completed, "decompose")
    /\ step' = "flamegraph"
    /\ UNCHANGED <<positions, data, request, pending, loadings, response>>
    /\ UNCHANGED nonPipeVars

\* Line 78: build_flamegraph_json(decomposition, betas)
PresentFlamegraph ==
    /\ step = "flamegraph"
    /\ outputs' = [outputs EXCEPT !.flamegraph =
            [status |-> "ok", decomposition |-> outputs.decomposition, betas |-> loadings]]
    /\ completed' = Append(completed, "flamegraph")
    /\ step' = "insight"
    /\ UNCHANGED <<positions, data, request, pending, loadings, response>>
    /\ UNCHANGED nonPipeVars

\* Lines 81-82: generate_insight(decomposition, positions_list)
PresentInsight ==
    /\ step = "insight"
    /\ outputs' = [outputs EXCEPT !.insight =
            [status |-> "ok", decomposition |-> outputs.decomposition]]
    /\ completed' = Append(completed, "insight")
    /\ step' = "respond"
    /\ UNCHANGED <<positions, data, request, pending, loadings, response>>
    /\ UNCHANGED nonPipeVars

\* Lines 85-108: the realized volatility, whose failure is swallowed, and
\* the response.
Respond ==
    /\ step = "respond"
    /\ \E realized_vol \in {"None", "computed"} :
          response' =
             [status |-> 200,
              flamegraph |-> outputs.flamegraph,
              decomposition |-> outputs.decomposition,
              realized_vol |-> realized_vol,
              insight |-> outputs.insight,
              stock_details |-> loadings]
    /\ completed' = Append(completed, "respond")
    /\ step' = "done"
    /\ UNCHANGED <<positions, data, request, pending, loadings, outputs>>
    /\ UNCHANGED nonPipeVars

NextPipeline ==
    \/ Validate
    \/ FetchData
    \/ RegressTicker
    \/ EstimateFactorCovariance
    \/ DecomposeVariance
    \/ PresentFlamegraph
    \/ PresentInsight
    \/ Respond

SpecPipeline == InitPipeline /\ [][NextPipeline]_vars

(* Properties of the request handler *)

PipelineOrder ==
    <<"fetch", "regress", "covariance", "decompose", "flamegraph", "insight", "respond">>
Ran(s) == \E i \in DOMAIN completed : completed[i] = s
RequestedTickers == { upper(positions[i][1]) : i \in DOMAIN positions }
JointlyValidFactorRows == Cardinality({ i \in DOMAIN data.ff_rows : data.ff_rows[i] })
Failed == response # NoResult /\ response.status # 200

\* C20: the steps of a request run in the pipeline's order: the regressions
\* leave one loadings entry per requested ticker, the decomposer runs only
\* after all of them and the covariance estimate, the presenters only after
\* the decomposer; when a step fails (the covariance estimator with fewer
\* than 60 rows in particular) no later step has run or runs, and the
\* request ends with an error response, never with a body.
C20_PipelineOrdering ==
    /\ completed = SubSeq(PipelineOrder, 1, Len(completed))
    /\ Ran("regress") =>
          /\ DOMAIN loadings = RequestedTickers
          /\ pending = <<>>
          /\ \A t \in RequestedTickers : loadings[t].ticker = t
    /\ Ran("decompose") =>
          /\ Ran("regress") /\ Ran("covariance")
          /\ outputs.factor_cov.status = "ok"
          /\ DOMAIN outputs.decomposition.betas = RequestedTickers
    /\ Ran("flamegraph") => Ran("decompose") /\ outputs.decomposition.status = "ok"
    /\ Ran("insight") => Ran("decompose") /\ outputs.decomposition.status = "ok"
    /\ JointlyValidFactorRows < MIN_FACTOR_OBS =>
          /\ ~Ran("decompose") /\ ~Ran("flamegraph") /\ ~Ran("insight")
          /\ step = "done" => Failed
    /\ Failed =>
          /\ step = "done"
          /\ ~Ran("respond")
          /\ response.status \in {400, 500}
          /\ DOMAIN response = {"status", "detail"}
    /\ (response # NoResult /\ response.status = 200) =>
          /\ completed = PipelineOrder
          /\ response.decomposition = outputs.decomposition
          /\ DOMAIN response.stock_details = RequestedTickers

C20_Witness ==
    /\ Failed
    /\ response.status = 500
    /\ completed = <<"fetch", "regress">>
    /\ Cardinality(RequestedTickers) = 2
    /\ DOMAIN loadings = RequestedTickers
    /\ \E t \in RequestedTickers : loadings[t].n_observations > 0

HandedWeights == outputs.decomposition.weights

\* C21: whenever the handler has called the decomposer, the weights it
\* handed over sum to 1 and hold one entry per submitted position, also
\* when two positions carry the same symbol up to letter case.
C21_WeightsSumToOnePerPosition ==
    Ran("decompose") =>
        /\ RSumOver(HandedWeights, DOMAIN HandedWeights) = FromInt(1)
        /\ Cardinality(DOMAIN HandedWeights) = Len(positions)

\* The same without a repeated symbol: holds, so the divergence is the
\* repeated key of the weights dict alone.
DistinctSymbols ==
    \A i \in DOMAIN positions : \A j \in DOMAIN positions :
        upper(positions[i][1]) = upper(positions[j][1]) => i = j

WeightsSumToOneWhenDistinct ==
    (Ran("decompose") /\ DistinctSymbols) =>
        /\ RSumOver(HandedWeights, DOMAIN HandedWeights) = FromInt(1)
        /\ Cardinality(DOMAIN HandedWeights) = Len(positions)

\* A repeated symbol with both positions funded reaches the decomposer.
RepeatedSymbolDecomposed ==
    /\ Ran("decompose")
    /\ Len(positions) = 2
    /\ ~DistinctSymbols
    /\ positions[1][2] > 0 /\ positions[2][2] > 0

====
